---- MODULE Spec2Model ----
(***************************************************************************)
(* prepare_isoform_data.py: isoform description lines                      *)
(* (chr|s1,s2,..|e1,e2,..|strand) are parsed, turned into a multi-block    *)
(* BED record (class Bed), written to isoforms.bed / isoforms.length.tsv,  *)
(* and the sequences bedtools extracts for them are written to             *)
(* isoforms.fa / isoforms.ext.fa.                                          *)
(*                                                                         *)
(* Text is a sequence of one-character strings.  A Python exception is a   *)
(* result record with ok = FALSE and the exception's name in exc.          *)
(***************************************************************************)
EXTENDS Integers, Sequences, FiniteSets, TLC

VARIABLES
    \* ---- the script's main block --------------------------------------
    circ_file,      \* the lines of args.circ_file, newline stripped
    line_no,        \* how many lines the for loop has taken from circ_file
    pc,             \* position of the main block
    isoform_data,   \* main's local: the parsed Isoform (or None)
    isoform_bed,    \* main's local: the Bed of the current isoform (or None)
    bed_out,        \* lines written to isoforms.bed
    bed_len_out,    \* lines written to isoforms.length.tsv
    completed,      \* what sp.run returned: the exit status (None before it ran)
    tmp_file,       \* lines bedtools left in the temporary file
    fa_pos,         \* how many lines of tmp_file get_fasta has yielded
    seq_out,        \* lines written to isoforms.fa
    seq_ext_out,    \* lines written to isoforms.ext.fa
    error,          \* the exception that ended the run (None if none)
    \* ---- one construction of a Bed object, step by step ----------------
    b_pc,           \* position inside Bed.__init__
    b_args,         \* the arguments of the constructor: regions, union
    b_self,         \* the object under construction
    b_rest          \* regions _parse_regions has still to fold in

main_vars == <<circ_file, line_no, pc, isoform_data, isoform_bed, bed_out,
               bed_len_out, completed, tmp_file, fa_pos, seq_out,
               seq_ext_out, error>>
bed_vars == <<b_pc, b_args, b_self, b_rest>>
vars == <<circ_file, line_no, pc, isoform_data, isoform_bed, bed_out,
          bed_len_out, completed, tmp_file, fa_pos, seq_out, seq_ext_out,
          error, b_pc, b_args, b_self, b_rest>>

None == [none |-> TRUE]

Ok(v) == [ok |-> TRUE, val |-> v]
Raise(e) == [ok |-> FALSE, exc |-> e]

(***************************************************************************)
(* Text primitives of the Python runtime the script relies on.             *)
(***************************************************************************)
TAB == "\t"

Digits == <<"0", "1", "2", "3", "4", "5", "6", "7", "8", "9">>

DigitChars == {Digits[i] : i \in 1..10}

DigitValue(c) == (CHOOSE i \in 1..10 : Digits[i] = c) - 1

\* str.split(sep) with a one-character separator
RECURSIVE split(_, _)
split(s, sep) ==
    IF \E i \in 1..Len(s) : s[i] = sep
    THEN LET i == CHOOSE j \in 1..Len(s) :
                      s[j] = sep /\ \A k \in 1..(j - 1) : s[k] # sep
         IN  <<SubSeq(s, 1, i - 1)>> \o split(SubSeq(s, i + 1, Len(s)), sep)
    ELSE <<s>>

RECURSIVE DecimalValue(_)
DecimalValue(tok) ==
    IF tok = <<>> THEN 0
    ELSE 10 * DecimalValue(SubSeq(tok, 1, Len(tok) - 1))
         + DigitValue(tok[Len(tok)])

IsDecimal(tok) == tok # <<>> /\ \A i \in 1..Len(tok) : tok[i] \in DigitChars

\* int(token): an optional sign and decimal digits, ValueError otherwise
int(tok) ==
    IF IsDecimal(tok) THEN Ok(DecimalValue(tok))
    ELSE IF tok # <<>> /\ tok[1] = "-" /\ IsDecimal(Tail(tok))
         THEN Ok(0 - DecimalValue(Tail(tok)))
    ELSE IF tok # <<>> /\ tok[1] = "+" /\ IsDecimal(Tail(tok))
         THEN Ok(DecimalValue(Tail(tok)))
    ELSE Raise("ValueError")

\* str(n) of an int, as print() renders it
RECURSIVE NatToStr(_)
NatToStr(n) ==
    IF n < 10 THEN <<Digits[n + 1]>>
    ELSE NatToStr(n \div 10) \o <<Digits[(n % 10) + 1]>>

str(n) == IF n < 0 THEN <<"-">> \o NatToStr(0 - n) ELSE NatToStr(n)

\* print(*list_, sep=sep, end='') on items that are already text
RECURSIVE _list_to_str(_, _)
_list_to_str(list_, sep) ==
    IF list_ = <<>> THEN <<>>
    ELSE IF Len(list_) = 1 THEN list_[1]
    ELSE list_[1] \o <<sep>> \o _list_to_str(Tail(list_), sep)

StrAll(ints) == [i \in 1..Len(ints) |-> str(ints[i])]

RECURSIVE sum(_)
sum(ints) == IF ints = <<>> THEN 0 ELSE ints[1] + sum(Tail(ints))

reversed(list_) == [i \in 1..Len(list_) |-> list_[Len(list_) + 1 - i]]

(***************************************************************************)
(* parse_isoform_data                                                      *)
(***************************************************************************)
IntList(toks) == [i \in 1..Len(toks) |-> int(toks[i])]

AllOk(results) == \A i \in 1..Len(results) : results[i].ok

Vals(results) == [i \in 1..Len(results) |-> results[i].val]

parse_isoform_data(isoform_string) ==
    LET fields == split(isoform_string, "|")
    IN  IF Len(fields) # 4 THEN Raise("ValueError")
        ELSE LET starts == IntList(split(fields[2], ","))
                 ends   == IntList(split(fields[3], ","))
             IN  IF ~AllOk(starts) \/ ~AllOk(ends) THEN Raise("ValueError")
                 ELSE Ok([chr_ |-> fields[1], starts |-> Vals(starts),
                          ends |-> Vals(ends), strand |-> fields[4]])

(***************************************************************************)
(* class Bed.  A region is the tuple <<chrom, start, end, strand>>.        *)
(***************************************************************************)
_region(start, end) == [start |-> start, end |-> end]

\* the object as __init__ has it before _parse_regions ran
NewBed(regions, name, union) ==
    [regions |-> regions, name |-> name, union |-> union,
     chrom |-> None, start |-> None, end |-> None, strand |-> None,
     block_count |-> None, block_sizes |-> None, block_starts |-> None]

reverse_regions_if_minus_strand(regions) ==
    IF regions = <<>> THEN Raise("IndexError")
    ELSE IF regions[1][4] = <<"-">> THEN Ok(reversed(regions))
    ELSE Ok(regions)

\* mutant: the block size taken from the 1-based start
ParseRegionRawSize(self, region) ==
    [self EXCEPT !.chrom = region[1],
                 !.start = region[2] - 1,
                 !.end = region[3],
                 !.strand = region[4],
                 !.block_count = 1,
                 !.block_sizes = <<region[3] - region[2]>>,
                 !.block_starts = <<0>>]

_parse_region(self, region) ==
    LET start == region[2] - 1
        end   == region[3]
    IN  [self EXCEPT !.chrom = region[1],
                     !.start = start,
                     !.end = end,
                     !.strand = region[4],
                     !.block_count = 1,
                     !.block_sizes = <<end - start>>,
                     !.block_starts = <<0>>]

\* Bed([region]): the one-block object _add_block builds for its argument
SingleBed(region) == _parse_region(NewBed(<<region>>, <<".">>, FALSE), region)

\* mutant: the new offset is appended, the recorded ones are not re-based
AddBlockNoRebase(self, region) ==
    LET other == SingleBed(region)
    IN  IF self.strand # other.strand THEN Raise("AssertionError")
        ELSE Ok([self EXCEPT
                   !.block_count = self.block_count + other.block_count,
                   !.block_sizes = self.block_sizes \o other.block_sizes,
                   !.start = IF other.start < self.start
                             THEN other.start ELSE self.start,
                   !.block_starts = self.block_starts
                                    \o <<other.start - self.start>>,
                   !.end = IF other.end > self.end
                           THEN other.end ELSE self.end])

\* mutant: the end is that of the last block folded in
AddBlockLastEnd(self, region) ==
    LET other == SingleBed(region)
        all_starts == [i \in 1..Len(self.block_starts) |->
                           self.block_starts[i] + self.start]
                      \o <<other.start>>
        start == IF other.start < self.start THEN other.start ELSE self.start
    IN  IF self.strand # other.strand THEN Raise("AssertionError")
        ELSE Ok([self EXCEPT
                   !.block_count = self.block_count + other.block_count,
                   !.block_sizes = self.block_sizes \o other.block_sizes,
                   !.start = start,
                   !.block_starts = [i \in 1..Len(all_starts) |->
                                         all_starts[i] - start],
                   !.end = other.end])

_add_block(self, region) ==
    LET other == SingleBed(region)
        all_starts == [i \in 1..Len(self.block_starts) |->
                           self.block_starts[i] + self.start]
                      \o <<other.start>>
        start == IF other.start < self.start THEN other.start ELSE self.start
        end   == IF other.end > self.end THEN other.end ELSE self.end
    IN  IF self.strand # other.strand THEN Raise("AssertionError")
        ELSE Ok([self EXCEPT
                   !.block_count = self.block_count + other.block_count,
                   !.block_sizes = self.block_sizes \o other.block_sizes,
                   !.start = start,
                   !.block_starts = [i \in 1..Len(all_starts) |->
                                         all_starts[i] - start],
                   !.end = end])

RECURSIVE AddBlocks(_, _)
AddBlocks(self, regions) ==
    IF regions = <<>> THEN Ok(self)
    ELSE LET next == _add_block(self, regions[1])
         IN  IF next.ok THEN AddBlocks(next.val, Tail(regions)) ELSE next

_parse_regions(self, regions) ==
    IF regions = <<>> THEN Raise("IndexError")
    ELSE AddBlocks(_parse_region(self, regions[1]), Tail(regions))

\* sorted(regions, key=start): stable, so equal starts keep their order
RECURSIVE Insert(_, _)
Insert(sorted_, r) ==
    IF sorted_ = <<>> THEN <<r>>
    ELSE IF r.start < sorted_[1].start THEN <<r>> \o sorted_
    ELSE <<sorted_[1]>> \o Insert(Tail(sorted_), r)

RECURSIVE sorted(_)
sorted(list_) ==
    IF list_ = <<>> THEN <<>>
    ELSE Insert(sorted(SubSeq(list_, 1, Len(list_) - 1)), list_[Len(list_)])

\* mutant: regions that share their boundary coordinate are kept apart
DisjointOrTouching(r1, r2) == r1.end <= r2.start

\* mutant: the candidate always takes the end of the next region
ExtendAlways(r1, r2) == _region(r1.start, r2.end)

\* the decision of the sweep for the candidate r1 and the next region r2
Disjoint(r1, r2) == r1.end < r2.start

Extend(r1, r2) == IF r1.end < r2.end THEN _region(r1.start, r2.end) ELSE r1

\* the for loop of get_union_regions with its else clause
RECURSIVE Sweep(_, _, _)
Sweep(union_regions, r1, rest) ==
    IF rest = <<>> THEN Append(union_regions, r1)
    ELSE LET r2 == rest[1]
         IN  IF Disjoint(r1, r2)
             THEN Sweep(Append(union_regions, r1), r2, Tail(rest))
             ELSE Sweep(union_regions, Extend(r1, r2), Tail(rest))

\* mutant: the regions are sorted and never merged
SortedOnly(regions) ==
    IF Cardinality({regions[i][1] : i \in 1..Len(regions)}) # 1
    THEN Raise("AssertionError")
    ELSE IF Cardinality({regions[i][4] : i \in 1..Len(regions)}) # 1
    THEN Raise("AssertionError")
    ELSE LET rs == sorted([i \in 1..Len(regions) |->
                               _region(regions[i][2], regions[i][3])])
         IN  Ok([i \in 1..Len(rs) |->
                    <<regions[1][1], rs[i].start, rs[i].end, regions[1][4]>>])

get_union_regions(regions) ==
    IF Cardinality({regions[i][1] : i \in 1..Len(regions)}) # 1
    THEN Raise("AssertionError")
    ELSE IF Cardinality({regions[i][4] : i \in 1..Len(regions)}) # 1
    THEN Raise("AssertionError")
    ELSE LET chr_   == regions[1][1]
             strand == regions[1][4]
             rs == sorted([i \in 1..Len(regions) |->
                               _region(regions[i][2], regions[i][3])])
             union_regions == Sweep(<<>>, rs[1], Tail(rs))
         IN  Ok([i \in 1..Len(union_regions) |->
                    <<chr_, union_regions[i].start, union_regions[i].end,
                      strand>>])

\* the part of __init__ before _parse_regions: which regions are folded
InitRegions(regions, union) ==
    IF ~union THEN reverse_regions_if_minus_strand(regions)
    ELSE get_union_regions(regions)

\* Bed(regions, name=name, union=union)
Bed(regions, name, union) ==
    LET rs == InitRegions(regions, union)
    IN  IF ~rs.ok THEN rs
        ELSE _parse_regions(NewBed(rs.val, name, union), rs.val)

get_data(self, all_fields) ==
    LET fields == <<self.chrom, str(self.start), str(self.end), self.name,
                    <<".">>, self.strand>>
    IN  IF all_fields
        THEN fields \o <<str(self.start), str(self.end), str(0),
                         str(self.block_count),
                         _list_to_str(StrAll(self.block_sizes), ","),
                         _list_to_str(StrAll(self.block_starts), ",")>>
        ELSE fields

to_string(self, all_fields) == _list_to_str(get_data(self, all_fields), TAB)

(***************************************************************************)
(* output_isoform_as_bed                                                   *)
(***************************************************************************)
Min(a, b) == IF a < b THEN a ELSE b

\* zip(starts, ends) turned into region tuples
ZipRegions(isoform) ==
    [i \in 1..Min(Len(isoform.starts), Len(isoform.ends)) |->
        <<isoform.chr_, isoform.starts[i], isoform.ends[i], isoform.strand>>]

\* mutant: the record is built on the raw path
OutputRawBed(isoform, isoform_name) ==
    IF Len(isoform.starts) # Len(isoform.ends) THEN Raise("AssertionError")
    ELSE IF ~(\A i \in 1..Len(isoform.starts) :
                  isoform.starts[i] <= isoform.ends[i])
    THEN Raise("AssertionError")
    ELSE Bed(ZipRegions(isoform), isoform_name, FALSE)

\* mutant: the second assertion is missing
OutputUnchecked(isoform, isoform_name) ==
    IF Len(isoform.starts) # Len(isoform.ends) THEN Raise("AssertionError")
    ELSE Bed(ZipRegions(isoform), isoform_name, TRUE)

output_isoform_as_bed(isoform, isoform_name) ==
    IF Len(isoform.starts) # Len(isoform.ends) THEN Raise("AssertionError")
    ELSE IF ~(\A i \in 1..Len(isoform.starts) :
                  isoform.starts[i] <= isoform.ends[i])
    THEN Raise("AssertionError")
    ELSE Bed(ZipRegions(isoform), isoform_name, TRUE)

(***************************************************************************)
(* get_fasta: what it does with one line of bedtools' tab-separated output *)
(***************************************************************************)
EndsWith(s, suffix) ==
    /\ Len(s) >= Len(suffix)
    /\ SubSeq(s, Len(s) - Len(suffix) + 1, Len(s)) = suffix

\* re.sub(r'\([+-]\)$', '', name)
StripStrand(name) ==
    IF EndsWith(name, <<"(", "+", ")">>) \/ EndsWith(name, <<"(", "-", ")">>)
    THEN SubSeq(name, 1, Len(name) - 3)
    ELSE name

\* re.sub(r'::.*$', '', name)
StripCoords(name) ==
    IF \E i \in 1..(Len(name) - 1) : name[i] = ":" /\ name[i + 1] = ":"
    THEN LET i == CHOOSE j \in 1..(Len(name) - 1) :
                      /\ name[j] = ":" /\ name[j + 1] = ":"
                      /\ \A k \in 1..(j - 1) : ~(name[k] = ":" /\ name[k + 1] = ":")
         IN  SubSeq(name, 1, i - 1)
    ELSE name

\* name, fa_seq = line.split('\t') and the two substitutions
FastaRecord(line) ==
    LET parts == split(line, TAB)
    IN  IF Len(parts) # 2 THEN Raise("ValueError")
        ELSE Ok([name |-> StripCoords(StripStrand(parts[1])),
                 fa_seq |-> parts[2]])

\* the length of the prefix appended in isoforms.ext.fa
ExtLen == 30

\* fa_seq + fa_seq[:30]
Extended(fa_seq) == fa_seq \o SubSeq(fa_seq, 1, Min(ExtLen, Len(fa_seq)))

(***************************************************************************)
(* Inputs: the lines of the input file.                                    *)
(***************************************************************************)
\* coordinates of the generated lines and regions range over 1..MaxCoord
MaxCoord == 3

\* the generated starts / ends lists and region lists have at most MaxExons entries
MaxExons == 2

Coords == 1..MaxCoord

CoordLists == UNION {[1..n -> Coords] : n \in 1..MaxExons}

Plus == <<"+">>

Minus == <<"-">>

Chr1 == <<"c", "h", "r", "1">>

Chr3 == <<"c", "h", "r", "3">>

\* an input line in the documented format chr|s1,s2,..|e1,e2,..|strand
FormatLine(chr_, starts, ends, strand) ==
    _list_to_str(<<chr_, _list_to_str(StrAll(starts), ","),
                   _list_to_str(StrAll(ends), ","), strand>>, "|")

\* the two example lines of the module docstring
DocLine1 ==
    <<"c", "h", "r", "1", "|", "1", ",", "1", "0", ",", "3", "2", "|",
      "5", ",", "2", "0", ",", "5", "0", "|", "+">>

DocLine2 ==
    <<"c", "h", "r", "3", "|", "3", "0", ",", "4", "5", "|",
      "2", "5", ",", "6", "0", "|", "-">>

\* lines parse_isoform_data cannot read: three fields, a non-numeric token
BadLines ==
    {<<"c", "h", "r", "1", "|", "1", "|", "+">>,
     <<"c", "h", "r", "1", "|", "1", "|", "x", "|", "+">>}

GenLines ==
    {FormatLine(Chr1, s, e, st) :
        s \in CoordLists, e \in CoordLists, st \in {Plus, Minus}}

Lines == GenLines \cup {DocLine1, DocLine2} \cup BadLines

\* an input file: one line, or the first example line followed by one line
Files == {pre \o <<l>> : pre \in {<<>>, <<DocLine1>>}, l \in Lines}

(***************************************************************************)
(* The bedtools process: everything it may leave in the temporary file.    *)
(***************************************************************************)
Bases == <<"A", "C", "G", "T">>

SeqOfLen(n) == [i \in 1..n |-> Bases[(i % 4) + 1]]

\* how getfasta -name -s decorates a record's name: name(strand), or
\* name::chrom:start-end(strand) in later releases
Decorated(f, deco) ==
    IF deco = "strand" THEN f[4] \o <<"(">> \o f[6] \o <<")">>
    ELSE f[4] \o <<":", ":">> \o f[1] \o <<":">> \o f[2] \o <<"-">> \o f[3]
         \o <<"(">> \o f[6] \o <<")">>

\* the runs explored: the older decoration with a sequence shorter than the
\* appended prefix, the newer one with a sequence longer than it
ToolRuns ==
    {[deco |-> "strand", seq |-> SeqOfLen(3)],
     [deco |-> "coords", seq |-> SeqOfLen(ExtLen + 2)]}

ToolLine(bed_line, run) ==
    Decorated(split(bed_line, TAB), run.deco) \o <<TAB>> \o run.seq

\* exit status 0: one line per record.  Non-zero: any prefix of them,
\* possibly followed by a line cut before its tab.
ToolOutputs(bed_lines, rc) ==
    LET full(run) ==
            [i \in 1..Len(bed_lines) |-> ToolLine(bed_lines[i], run)]
    IN  IF rc = 0
        THEN {full(run) : run \in ToolRuns}
        ELSE UNION {
               {SubSeq(full(run), 1, k) : k \in 0..Len(bed_lines)}
               \cup {SubSeq(full(run), 1, k - 1)
                       \o <<Decorated(split(bed_lines[k], TAB), run.deco)>> :
                     k \in 1..Len(bed_lines)} :
               run \in ToolRuns}

ExitCodes == {0, 1}

(***************************************************************************)
(* The main block.                                                         *)
(***************************************************************************)
BedIdle ==
    /\ b_pc = "idle"
    /\ b_args = None
    /\ b_self = None
    /\ b_rest = <<>>

Init ==
    /\ circ_file \in Files
    /\ line_no = 0
    /\ pc = "loop"
    /\ isoform_data = None
    /\ isoform_bed = None
    /\ bed_out = <<>>
    /\ bed_len_out = <<>>
    /\ completed = None
    /\ tmp_file = <<>>
    /\ fa_pos = 0
    /\ seq_out = <<>>
    /\ seq_ext_out = <<>>
    /\ error = None
    /\ BedIdle

\* an uncaught exception ends the run
Fail(exc) ==
    /\ pc' = "failed"
    /\ error' = [exc |-> exc]

\* the isoform_string of the current iteration
isoform_string == circ_file[line_no]

\* for isoform_string in args.circ_file: ... parse_isoform_data(...)
ParseLine ==
    /\ pc = "loop"
    /\ line_no < Len(circ_file)
    /\ line_no' = line_no + 1
    /\ LET r == parse_isoform_data(circ_file[line_no + 1])
       IN  \/ /\ r.ok
              /\ isoform_data' = r.val
              /\ pc' = "build"
              /\ UNCHANGED error
           \/ /\ ~r.ok
              /\ Fail(r.exc)
              /\ UNCHANGED isoform_data
    /\ UNCHANGED <<circ_file, isoform_bed, bed_out, bed_len_out, completed,
                   tmp_file, fa_pos, seq_out, seq_ext_out>>
    /\ UNCHANGED bed_vars

\* isoform_bed = output_isoform_as_bed(isoform_data, isoform_string)
BuildBed ==
    /\ pc = "build"
    /\ LET r == output_isoform_as_bed(isoform_data, isoform_string)
       IN  \/ /\ r.ok
              /\ isoform_bed' = r.val
              /\ pc' = "write_bed"
              /\ UNCHANGED error
           \/ /\ ~r.ok
              /\ Fail(r.exc)
              /\ UNCHANGED isoform_bed
    /\ UNCHANGED <<circ_file, line_no, isoform_data, bed_out, bed_len_out,
                   completed, tmp_file, fa_pos, seq_out, seq_ext_out>>
    /\ UNCHANGED bed_vars

\* print(isoform_bed.to_string(all_fields=True), file=bed_out)
WriteBed ==
    /\ pc = "write_bed"
    /\ bed_out' = Append(bed_out, to_string(isoform_bed, TRUE))
    /\ pc' = "write_len"
    /\ UNCHANGED <<circ_file, line_no, isoform_data, isoform_bed, bed_len_out,
                   completed, tmp_file, fa_pos, seq_out, seq_ext_out, error>>
    /\ UNCHANGED bed_vars

\* total_len = sum(isoform_bed.block_sizes); print(isoform_string, total_len)
total_len == sum(isoform_bed.block_sizes)

WriteLen ==
    /\ pc = "write_len"
    /\ bed_len_out' = Append(bed_len_out,
                             _list_to_str(<<isoform_string, str(total_len)>>, TAB))
    /\ pc' = "loop"
    /\ UNCHANGED <<circ_file, line_no, isoform_data, isoform_bed, bed_out,
                   completed, tmp_file, fa_pos, seq_out, seq_ext_out, error>>
    /\ UNCHANGED bed_vars

\* get_fasta up to sp.run(cmd): the exit status is not looked at
RunBedtools ==
    /\ pc = "loop"
    /\ line_no = Len(circ_file)
    /\ \E rc \in ExitCodes :
         /\ completed' = [returncode |-> rc]
         /\ tmp_file' \in ToolOutputs(bed_out, rc)
    /\ pc' = "read_fasta"
    /\ UNCHANGED <<circ_file, line_no, isoform_data, isoform_bed, bed_out,
                   bed_len_out, fa_pos, seq_out, seq_ext_out, error>>
    /\ UNCHANGED bed_vars

\* one line of the temporary file: yielded by get_fasta, written by main
WriteFasta ==
    /\ pc = "read_fasta"
    /\ fa_pos < Len(tmp_file)
    /\ fa_pos' = fa_pos + 1
    /\ LET r == FastaRecord(tmp_file[fa_pos + 1])
       IN  \/ /\ r.ok
              /\ seq_out' = seq_out \o <<<<">">> \o r.val.name, r.val.fa_seq>>
              /\ seq_ext_out' = seq_ext_out
                     \o <<<<">">> \o r.val.name, Extended(r.val.fa_seq)>>
              /\ UNCHANGED <<pc, error>>
           \/ /\ ~r.ok
              /\ Fail(r.exc)
              /\ UNCHANGED <<seq_out, seq_ext_out>>
    /\ UNCHANGED <<circ_file, line_no, isoform_data, isoform_bed, bed_out,
                   bed_len_out, completed, tmp_file>>
    /\ UNCHANGED bed_vars

\* the temporary file is exhausted: the script ends normally
Finish ==
    /\ pc = "read_fasta"
    /\ fa_pos = Len(tmp_file)
    /\ pc' = "done"
    /\ UNCHANGED <<circ_file, line_no, isoform_data, isoform_bed, bed_out,
                   bed_len_out, completed, tmp_file, fa_pos, seq_out,
                   seq_ext_out, error>>
    /\ UNCHANGED bed_vars

Next ==
    \/ ParseLine
    \/ BuildBed
    \/ WriteBed
    \/ WriteLen
    \/ RunBedtools
    \/ WriteFasta
    \/ Finish

Spec == Init /\ [][Next]_vars

(***************************************************************************)
(* One construction Bed(regions, union=...), one step of __init__ and of   *)
(* _parse_regions at a time, on regions in any order.                      *)
(***************************************************************************)
CoordPairs == Coords \X Coords

PairLists == UNION {[1..n -> CoordPairs] : n \in 0..MaxExons}

\* regions of one chromosome and strand; "strand" / "chrom": the last
\* region carries the other strand / another chromosome
Tagged(pairs, strand, odd) ==
    [i \in 1..Len(pairs) |->
        <<IF odd = "chrom" /\ i = Len(pairs) THEN Chr3 ELSE Chr1,
          pairs[i][1], pairs[i][2],
          IF odd = "strand" /\ i = Len(pairs)
          THEN (IF strand = Plus THEN Minus ELSE Plus) ELSE strand>>]

RegionLists ==
    {Tagged(pairs, strand, odd) :
        pairs \in PairLists, strand \in {Plus, Minus},
        odd \in {"none", "strand", "chrom"}}

MainIdle ==
    /\ circ_file = <<>>
    /\ line_no = 0
    /\ pc = "idle"
    /\ isoform_data = None
    /\ isoform_bed = None
    /\ bed_out = <<>>
    /\ bed_len_out = <<>>
    /\ completed = None
    /\ tmp_file = <<>>
    /\ fa_pos = 0
    /\ seq_out = <<>>
    /\ seq_ext_out = <<>>
    /\ error = None

BedSpecInit ==
    /\ MainIdle
    /\ b_pc = "init"
    /\ b_args \in [regions : RegionLists, union : BOOLEAN]
    /\ b_self = None
    /\ b_rest = <<>>

\* __init__ up to the call of _parse_regions
BedInit ==
    /\ b_pc = "init"
    /\ LET rs == InitRegions(b_args.regions, b_args.union)
       IN  \/ /\ rs.ok
              /\ b_self' = NewBed(rs.val, <<".">>, b_args.union)
              /\ b_pc' = "seed"
           \/ /\ ~rs.ok
              /\ b_pc' = rs.exc
              /\ UNCHANGED b_self
    /\ UNCHANGED <<b_args, b_rest>>
    /\ UNCHANGED main_vars

\* self._parse_region(regions[0])
ParseRegion ==
    /\ b_pc = "seed"
    /\ b_self' = _parse_region(b_self, b_self.regions[1])
    /\ b_rest' = Tail(b_self.regions)
    /\ b_pc' = "fold"
    /\ UNCHANGED b_args
    /\ UNCHANGED main_vars

\* for region in regions[1:]: self._add_block(region)
AddBlock ==
    /\ b_pc = "fold"
    /\ b_rest # <<>>
    /\ LET r == _add_block(b_self, b_rest[1])
       IN  \/ /\ r.ok
              /\ b_self' = r.val
              /\ b_rest' = Tail(b_rest)
              /\ UNCHANGED b_pc
           \/ /\ ~r.ok
              /\ b_pc' = r.exc
              /\ UNCHANGED <<b_self, b_rest>>
    /\ UNCHANGED b_args
    /\ UNCHANGED main_vars

\* the loop is over: the constructor returns
BedBuilt ==
    /\ b_pc = "fold"
    /\ b_rest = <<>>
    /\ b_pc' = "built"
    /\ UNCHANGED <<b_args, b_self, b_rest>>
    /\ UNCHANGED main_vars

BedNext ==
    \/ BedInit
    \/ ParseRegion
    \/ AddBlock
    \/ BedBuilt

BedSpec == BedSpecInit /\ [][BedNext]_vars

(***************************************************************************)
(* Properties of Bed.get_union_regions and of the fold (under BedSpec).    *)
(***************************************************************************)
\* the 0-based positions [start - 1, end) a region covers
Covered(region) == (region[2] - 1)..(region[3] - 1)

Coverage(regions) == UNION {Covered(regions[i]) : i \in 1..Len(regions)}

AllOrdered(regions) == \A i \in 1..Len(regions) : regions[i][2] <= regions[i][3]

SameStrand(regions) ==
    \A i, j \in 1..Len(regions) : regions[i][4] = regions[j][4]

SameChrom(regions) ==
    \A i, j \in 1..Len(regions) : regions[i][1] = regions[j][1]

\* get_union_regions was called on a non-empty list of regions of one
\* chromosome and one strand
UnionCalled ==
    /\ b_pc # "init"
    /\ b_args.union
    /\ b_args.regions # <<>>
    /\ SameChrom(b_args.regions)
    /\ SameStrand(b_args.regions)

\* ... each of them with start <= end
UnionReturned == UnionCalled /\ AllOrdered(b_args.regions)

Seeded == b_pc \in {"fold", "built"}

\* C1: for a non-empty list of regions of one chromosome and one strand,
\* each with start <= end, get_union_regions returns (raises nothing)
\* intervals sorted ascending by start, pairwise without a common position,
\* whose covered positions are exactly those of the input regions.
C1_UnionCoverage ==
    UnionReturned =>
        /\ b_pc \in {"seed", "fold", "built"}
        /\ LET out == b_self.regions
           IN  /\ \A i \in 1..(Len(out) - 1) : out[i][2] < out[i + 1][2]
               /\ \A i, j \in 1..Len(out) :
                     i # j => Covered(out[i]) \cap Covered(out[j]) = {}
               /\ Coverage(out) = Coverage(b_args.regions)

\* two unsorted regions, the first one inside the second, merged into one
C1_Witness ==
    /\ UnionReturned
    /\ b_pc = "built"
    /\ Len(b_args.regions) = 2
    /\ b_args.regions[1][2] > b_args.regions[2][2]
    /\ b_args.regions[1][3] < b_args.regions[2][3]
    /\ Len(b_self.regions) = 1

\* region a ends at the 0-based position where region b begins
Adjacent(a, b) == a[3] = b[2] - 1 \/ b[3] = a[2] - 1

\* C2 as stated: no two returned intervals overlap or are adjacent in
\* their covered positions [start - 1, end), so the union is minimal.
C2_NoOverlapNoAdjacency ==
    UnionReturned =>
        \A i, j \in 1..Len(b_self.regions) :
            i # j => /\ Covered(b_self.regions[i])
                           \cap Covered(b_self.regions[j]) = {}
                     /\ ~Adjacent(b_self.regions[i], b_self.regions[j])

\* C2 as amended: for every list of regions of one chromosome and strand,
\* consecutive returned intervals r, r' have r.end < r'.start in input
\* coordinates, so no two of them share a covered position (and the blocks
\* of the record built from them do not overlap); inputs that share a
\* position lie in one returned interval, and every returned interval
\* starts at an input's start and ends at an input's end.  Inputs that are
\* only adjacent (r'.start = r.end + 1) stay two intervals.
C2_UnionMergesOverlapsOnly ==
    (UnionCalled /\ b_pc \in {"seed", "fold", "built"}) =>
        LET out == b_self.regions
            in_ == b_args.regions
        IN  /\ \A i \in 1..(Len(out) - 1) : out[i][3] < out[i + 1][2]
            /\ \A i, j \in 1..Len(in_) :
                  Covered(in_[i]) \cap Covered(in_[j]) # {} =>
                      \E k \in 1..Len(out) :
                          Covered(in_[i]) \cup Covered(in_[j])
                              \subseteq Covered(out[k])
            /\ \A k \in 1..Len(out) :
                  \E i, j \in 1..Len(in_) :
                      in_[i][2] = out[k][2] /\ in_[j][3] = out[k][3]
            /\ b_pc = "built" =>
                  \A i \in 1..(Len(out) - 1) :
                      b_self.block_starts[i] + b_self.block_sizes[i]
                          <= b_self.block_starts[i + 1]

\* two adjacent regions come back as two intervals
C2_Witness ==
    /\ UnionReturned
    /\ b_pc = "built"
    /\ Len(b_self.regions) = 2
    /\ Adjacent(b_self.regions[1], b_self.regions[2])
    /\ b_self.block_starts[1] + b_self.block_sizes[1] = b_self.block_starts[2]

\* C9: for same-strand regions with start <= end, after the seed step and
\* after every _add_block step, whatever the order of the regions,
\* block_count = len(block_sizes) = len(block_starts), start <= end, and
\* every block lies inside the envelope: 0 <= block_starts[i] and
\* block_starts[i] + block_sizes[i] <= end - start.
C9_BlockRecordInvariant ==
    (Seeded /\ SameStrand(b_args.regions) /\ AllOrdered(b_args.regions)) =>
        /\ b_self.block_count = Len(b_self.block_sizes)
        /\ b_self.block_count = Len(b_self.block_starts)
        /\ b_self.block_count = Len(b_self.regions) - Len(b_rest)
        /\ b_self.start <= b_self.end
        /\ \A i \in 1..b_self.block_count :
              /\ 0 <= b_self.block_starts[i]
              /\ b_self.block_starts[i] + b_self.block_sizes[i]
                     <= b_self.end - b_self.start

\* a later block lowered the start: the first block's offset was re-based
C9_Witness ==
    /\ Seeded
    /\ ~b_args.union
    /\ SameStrand(b_args.regions)
    /\ AllOrdered(b_args.regions)
    /\ b_self.block_count = 2
    /\ b_self.block_starts[1] > 0
    /\ b_self.block_starts[2] = 0

\* the order in which the constructor folds the regions it was given
FoldOrder ==
    IF b_args.union THEN b_self.regions
    ELSE IF b_args.regions[1][4] = Minus THEN reversed(b_args.regions)
    ELSE b_args.regions

Last(list_) == list_[Len(list_)]

\* the exon regions of a parsed isoform, in input order
Exons(isoform) ==
    [i \in 1..Len(isoform.starts) |->
        <<isoform.chr_, isoform.starts[i], isoform.ends[i], isoform.strand>>]

ValidIsoform(isoform) ==
    /\ Len(isoform.starts) = Len(isoform.ends)
    /\ \A i \in 1..Len(isoform.starts) : isoform.starts[i] <= isoform.ends[i]

\* the record of the current isoform has just been written to isoforms.bed
BedWritten == pc = "write_len"

\* the twelve fields of the line just written
WrittenFields == split(Last(bed_out), TAB)

DocLine1Built == pc = "write_bed" /\ isoform_string = DocLine1

\* C4 as stated: chr1|1,10,32|5,20,50|+ parses to starts [1,10,32] and ends
\* [5,20,50]; its record has block_count 3, start 0, end 50, block_sizes
\* [4,10,18] and block_starts [0,9,31].
C4_DocLine1AsStated ==
    DocLine1Built =>
        /\ isoform_data.starts = <<1, 10, 32>>
        /\ isoform_data.ends = <<5, 20, 50>>
        /\ isoform_bed.block_count = 3
        /\ isoform_bed.start = 0
        /\ isoform_bed.end = 50
        /\ isoform_bed.block_sizes = <<4, 10, 18>>
        /\ isoform_bed.block_starts = <<0, 9, 31>>

\* C4 as amended: the same, with block_sizes [5,11,19] (each size is
\* end - (start - 1)).
C4_DocLine1Record ==
    DocLine1Built =>
        /\ isoform_data.chr_ = Chr1
        /\ isoform_data.starts = <<1, 10, 32>>
        /\ isoform_data.ends = <<5, 20, 50>>
        /\ isoform_data.strand = Plus
        /\ isoform_bed.block_count = 3
        /\ isoform_bed.start = 0
        /\ isoform_bed.end = 50
        /\ isoform_bed.block_sizes = <<5, 11, 19>>
        /\ isoform_bed.block_starts = <<0, 9, 31>>

C4_Witness == DocLine1Built /\ isoform_bed.name = DocLine1

\* the second example line has been taken and output_isoform_as_bed called
DocLine2Handled ==
    /\ line_no >= 1
    /\ isoform_string = DocLine2
    /\ pc # "build"

\* C5: the example line chr3|30,45|25,60|- is turned into a record: the
\* exons are folded in reversed input order ((45,60) before (30,25)), the
\* record's blocks and offsets are those of that fold, its strand is '-'.
C5_DocLine2ReversedFold ==
    DocLine2Handled =>
        /\ pc # "failed"
        /\ LET fold == AddBlocks(SingleBed(<<Chr3, 45, 60, Minus>>),
                                 <<<<Chr3, 30, 25, Minus>>>>).val
           IN  /\ isoform_bed.name = DocLine2
               /\ isoform_bed.strand = Minus
               /\ isoform_bed.block_count = 2
               /\ isoform_bed.block_sizes = fold.block_sizes
               /\ isoform_bed.block_starts = fold.block_starts

\* the isoform parsed last has unequal lists or a pair with start > end
InvalidIsoformParsed == isoform_data # None /\ ~ValidIsoform(isoform_data)

C7_ToolFailureIsFatal ==
    (completed # None /\ completed.returncode # 0) =>
        /\ pc # "done"
        /\ seq_out = <<>>
        /\ seq_ext_out = <<>>

\* the length of the current isoform has just been written
LengthWritten == pc = "loop" /\ line_no >= 1 /\ Len(bed_len_out) = line_no

\* the second field of the line just written to isoforms.length.tsv
WrittenLength == split(Last(bed_len_out), TAB)[2]

RawSizeSum(isoform) ==
    sum([i \in 1..Len(isoform.starts) |->
            isoform.ends[i] - (isoform.starts[i] - 1)])

NoTwoExonsOverlap(isoform) ==
    \A i, j \in 1..Len(isoform.starts) :
        i # j => Covered(Exons(isoform)[i]) \cap Covered(Exons(isoform)[j]) = {}

\* C8: the length written to isoforms.length.tsv for a valid isoform is the
\* number of distinct positions its exons cover (exon (s, e) covers
\* [s - 1, e)); it is at most the sum of the raw exon sizes, and equal to
\* it exactly when no two exons overlap.
C8_LengthIsCoverage ==
    LengthWritten =>
        LET covered == Cardinality(Coverage(Exons(isoform_data)))
        IN  /\ ValidIsoform(isoform_data)
            /\ split(Last(bed_len_out), TAB)[1] = isoform_string
            /\ WrittenLength = str(covered)
            /\ int(WrittenLength).val <= RawSizeSum(isoform_data)
            /\ int(WrittenLength).val = RawSizeSum(isoform_data)
                   <=> NoTwoExonsOverlap(isoform_data)

\* a length was written for two exons that overlap
C8_Witness ==
    /\ LengthWritten
    /\ ~NoTwoExonsOverlap(isoform_data)
    /\ int(WrittenLength).val < RawSizeSum(isoform_data)

====
